---- MODULE Spec2Model ----
\* Model of libavcodec/libwebpdec.c: the animated WebP decode session
\* (decode_libwebp_init, decode_libwebp_frame, decode_libwebp_close) driving
\* a WebPAnimDecoder over one container payload.
EXTENDS Integers, Sequences, FiniteSets, TLC

\* ---------------------------------------------------------------- bounds
MaxFrames == 3      \* frames per container: 1..MaxFrames
MaxLoopCount == 3   \* declared loop count: 0..MaxLoopCount
MaxCalls == 11      \* decode_libwebp_frame calls per session
MaxCloses == 2      \* decode_libwebp_close calls per session
MaxInits == 2       \* payload references taken per session

\* ------------------------------------------------------- program constants
EINVAL == 22
ENOMEM == 12
AVERROR_EOF == -541478725

AVERROR(e) == -e

\* avpkt->size as the host delivers it: an empty packet or the payload
PktSizes == {0, 1}

\* canvas sizes <<width, height>> a container may declare
CanvasSizes == {<<1, 2>>, <<2, 1>>}

\* results ff_get_buffer may report: success or some negative error
GetBufferResults == {0, AVERROR(ENOMEM), AVERROR(EINVAL)}

VARIABLES
    \* AnimatedWebPContext / AVCodecContext
    dec,            \* WebPAnimDecoder handle, 0 = NULL
    file_content,   \* AVBufferRef handle, 0 = NULL
    webp_data,      \* buffer reference webp_data.bytes points into, 0 = NULL
    loop_to_send,
    loop_sent,
    ignore_loop,
    width,          \* avctx->width
    height,         \* avctx->height
    \* the container behind the payload and the decoder's read position
    anim_info,      \* [canvas_width, canvas_height, loop_count, frame_count]
    next_frame,     \* frames the WebPAnimDecoder has yielded in this pass
    \* results of the last call
    ret,
    got_frame,
    p,              \* the output AVFrame
    \* what the last call did
    op,             \* "init", "decode" or "close"
    pkt_size,       \* avpkt->size of the last decode call
    ctor,           \* WebPAnimDecoderNew in the last call: "none", "ok", "fail"
    get_next,       \* WebPAnimDecoderGetNext in the last call: "none", "ok", "fail"
    buf_called,     \* ff_get_buffer was called in the last call
    buf_ret,        \* what ff_get_buffer returned in the last call
    has_more,       \* WebPAnimDecoderHasMoreFrames in the last call: "none",
                    \* "yes", "no"
    dec_at_unref,   \* the WebPAnimDecoder that existed when the last call
                    \* released the buffer reference, 0 = none or no release
    \* history of the session
    clean,          \* the session so far followed the host's protocol: first
                    \* call carried the payload, later calls were empty,
                    \* nothing failed, close was not called
    calls,          \* while clean: decode calls so far (0 once not clean)
    produced,       \* while clean: calls that set got_frame so far
    first_eof,      \* while clean: number of the first call that returned
                    \* AVERROR_EOF, 0 = none
    closes,         \* close calls so far
    eof_seen,       \* some decode call has returned AVERROR_EOF
    pass_delivered, \* frames of the decoder's current pass that were delivered
    pass_buf_fails, \* frames of the current pass fetched but lost to a
                    \* ff_get_buffer failure
    refsAcquired,   \* av_buffer_ref calls so far
    refRel,         \* per buffer reference: times it was released
    decCreated,     \* WebPAnimDecoder objects created so far
    decDel          \* per WebPAnimDecoder: times it was deleted

ctx == <<dec, file_content, webp_data, loop_to_send, loop_sent, ignore_loop,
         width, height>>
vars == <<dec, file_content, webp_data, loop_to_send, loop_sent, ignore_loop,
          width, height, anim_info, next_frame, ret, got_frame, p, op,
          pkt_size, ctor, get_next, buf_called, buf_ret, calls, closes,
          produced, first_eof, clean, refsAcquired, refRel, decCreated,
          decDel, has_more, dec_at_unref, eof_seen, pass_delivered,
          pass_buf_fails>>

Containers ==
    { [canvas_width |-> c[1], canvas_height |-> c[2],
       loop_count |-> l, frame_count |-> n] :
         c \in CanvasSizes, l \in 0..MaxLoopCount, n \in 1..MaxFrames }

\* the frame the host hands in: unreferenced, no fields set
BlankFrame ==
    [width |-> 0, height |-> 0, format |-> "NONE", pts |-> -1,
     pkt_dts |-> -1, pict_type |-> "NONE", data |-> 0]

\* millisecond timestamp the WebPAnimDecoder reports for frame i of a pass
Timestamp(i) == i * 40

\* ------------------------------------------------------------- helpers
\* av_buffer_unref(&ref): no-op on NULL, else one release of that reference
av_buffer_unref(rel, ref) ==
    IF ref = 0 THEN rel ELSE [rel EXCEPT ![ref] = @ + 1]

\* WebPAnimDecoderDelete(dec)
WebPAnimDecoderDelete(del, d) == [del EXCEPT ![d] = @ + 1]

\* the cleanup when WebPAnimDecoderNew fails
ReleaseOnNewFailure_Leak(rel, ref) == rel

ReleaseOnNewFailure(rel, ref) == av_buffer_unref(rel, ref)

\* if (!s->dec)
NeedsInit_Always(d) == TRUE

NeedsInit(d) == d = 0

NoInputOnFirstCall_Strict(size) == size < 0

NoInputOnFirstCall(size) == size <= 0

LoopToSend_Declared(ignore, loop_count) == loop_count

LoopToSend(ignore, loop_count) == IF ignore THEN 1 ELSE loop_count

WebPAnimDecoderHasMoreFrames(pos, frame_count) == pos < frame_count

\* WebPAnimDecoderReset(dec): back to the first frame
WebPAnimDecoderReset_Skipped(pos) == pos

WebPAnimDecoderReset(pos) == 0

\* WebPAnimDecoderGetNext(dec, ...): a fetched frame advances the decoder, a
\* failed fetch leaves it where it was
WebPAnimDecoderGetNext(pos, ok) == IF ok THEN pos + 1 ELSE pos

\* the frame is fetched before the buffer is acquired and the failure return
\* does not rewind the decoder: it stays after the fetched frame
PosAfterBufferFailure_Rewound(before, after) == before

PosAfterBufferFailure(before, after) == after

LoopSentAfterBoundary_Always(sent, more) == sent + 1

\* loop_sent++ on a uint32_t: it grows by at most one per call, so within
\* MaxCalls calls it stays far below 2^32 and the increment never wraps
LoopSentAfterBoundary(sent, more) ==
    IF ~more THEN sent + 1 ELSE sent

ReachedLoopTarget_Strict(sent, target) == sent > target

ReachedLoopTarget(sent, target) == sent >= target

GetNextFailed_Ignored(ok) == FALSE

GetNextFailed(ok) == ~ok

BufferFailureCode_Propagated(r) == r

BufferFailureCode(r) == AVERROR(ENOMEM)

FrameWidth_Swapped(w, h) == h

FrameWidth(w, h) == w

FrameHeight(w, h) == h

\* p->pts = timestamp_ms
FramePts_Zero(timestamp_ms) == 0

FramePts(timestamp_ms) == timestamp_ms

DecAfterClose_Kept(d) == d

DecAfterClose(d) == 0

\* ---------------------------------------------------------------- Init
\* decode_libwebp_init on a zeroed private context
Init ==
    /\ dec = 0
    /\ file_content = 0
    /\ webp_data = 0
    /\ loop_to_send = 0
    /\ loop_sent = 0
    /\ ignore_loop \in BOOLEAN
    /\ width = 0
    /\ height = 0
    /\ anim_info \in Containers
    /\ next_frame = 0
    /\ ret = 0
    /\ got_frame = 0
    /\ p = BlankFrame
    /\ op = "init"
    /\ pkt_size = 0
    /\ ctor = "none"
    /\ get_next = "none"
    /\ buf_called = FALSE
    /\ buf_ret = 0
    /\ calls = 0
    /\ closes = 0
    /\ produced = 0
    /\ first_eof = 0
    /\ clean = TRUE
    /\ refsAcquired = 0
    /\ refRel = [i \in 1..MaxInits |-> 0]
    /\ decCreated = 0
    /\ decDel = [i \in 1..MaxInits |-> 0]
    /\ has_more = "none"
    /\ dec_at_unref = 0
    /\ eof_seen = FALSE
    /\ pass_delivered = 0
    /\ pass_buf_fails = 0

\* ------------------------------------------------------------- actions
decode_libwebp_frame(size, newOk, nextOk, bufRet) ==
    LET init_needed == NeedsInit(dec)
        no_input == init_needed /\ NoInputOnFirstCall(size)
        do_new == init_needed /\ ~no_input
        new_failed == do_new /\ ~newOk
        inited == do_new /\ newOk
        ref == refsAcquired + 1
        dec1 == IF inited THEN decCreated + 1 ELSE dec
        lts1 == IF inited THEN LoopToSend(ignore_loop, anim_info.loop_count)
                ELSE loop_to_send
        w1 == IF inited THEN anim_info.canvas_width ELSE width
        h1 == IF inited THEN anim_info.canvas_height ELSE height
        pos1 == IF inited THEN 0 ELSE next_frame
        proceed == ~no_input /\ ~new_failed
        more == WebPAnimDecoderHasMoreFrames(pos1, anim_info.frame_count)
        sent2 == IF proceed THEN LoopSentAfterBoundary(loop_sent, more)
                 ELSE loop_sent
        reset == proceed /\ ~more
        pos2 == IF reset THEN WebPAnimDecoderReset(pos1) ELSE pos1
        eof == proceed /\ ReachedLoopTarget(sent2, lts1)
        try_next == proceed /\ ~eof
        next_failed == try_next /\ GetNextFailed(nextOk)
        pos3 == IF try_next THEN WebPAnimDecoderGetNext(pos2, nextOk) ELSE pos2
        try_buf == try_next /\ ~next_failed
        buf_failed == try_buf /\ bufRet # 0
        pos4 == IF buf_failed THEN PosAfterBufferFailure(pos2, pos3) ELSE pos3
        new_pass == inited \/ reset
        delivered == try_buf /\ bufRet = 0
        result == IF no_input THEN AVERROR(EINVAL)
                  ELSE IF new_failed THEN AVERROR(ENOMEM)
                  ELSE IF eof THEN AVERROR_EOF
                  ELSE IF next_failed THEN AVERROR(EINVAL)
                  ELSE IF buf_failed THEN BufferFailureCode(bufRet)
                  ELSE bufRet
        clean1 == /\ clean
                  /\ IF calls = 0 THEN size > 0 ELSE size = 0
                  /\ ~no_input /\ ~new_failed /\ ~(try_next /\ ~nextOk)
                  /\ ~buf_failed
    IN
    /\ calls < MaxCalls
    /\ loop_sent < MaxCalls
    /\ do_new => refsAcquired < MaxInits
    /\ dec' = dec1
    /\ file_content' = IF new_failed THEN 0 ELSE IF inited THEN ref
                       ELSE file_content
    /\ webp_data' = IF do_new THEN ref ELSE webp_data
    /\ refsAcquired' = IF do_new THEN ref ELSE refsAcquired
    /\ refRel' = IF new_failed THEN ReleaseOnNewFailure(refRel, ref) ELSE refRel
    /\ decCreated' = IF inited THEN decCreated + 1 ELSE decCreated
    /\ loop_to_send' = lts1
    /\ width' = w1
    /\ height' = h1
    /\ loop_sent' = sent2
    /\ next_frame' = pos4
    /\ ret' = result
    /\ got_frame' = IF delivered THEN 1 ELSE 0
    /\ p' = IF delivered
            THEN [width |-> FrameWidth(w1, h1), height |-> FrameHeight(w1, h1),
                  format |-> "RGBA", pts |-> FramePts(Timestamp(pos3)),
                  pkt_dts |-> 0,
                  pict_type |-> "I", data |-> pos3]
            ELSE BlankFrame
    /\ op' = "decode"
    /\ pkt_size' = size
    /\ ctor' = IF inited THEN "ok" ELSE IF new_failed THEN "fail" ELSE "none"
    /\ get_next' = IF ~try_next THEN "none" ELSE IF nextOk THEN "ok" ELSE "fail"
    /\ buf_called' = try_buf
    /\ buf_ret' = IF try_buf THEN bufRet ELSE 0
    /\ clean' = clean1
    /\ calls' = IF clean1 THEN calls + 1 ELSE 0
    /\ produced' = IF ~clean1 THEN 0
                   ELSE IF delivered THEN produced + 1 ELSE produced
    /\ first_eof' = IF ~clean1 THEN 0
                    ELSE IF eof /\ first_eof = 0 THEN calls + 1 ELSE first_eof
    /\ has_more' = IF ~proceed THEN "none" ELSE IF more THEN "yes" ELSE "no"
    /\ dec_at_unref' = 0
    /\ eof_seen' = (eof_seen \/ eof)
    /\ pass_delivered' = (IF new_pass THEN 0 ELSE pass_delivered)
                          + (IF delivered THEN 1 ELSE 0)
    /\ pass_buf_fails' = (IF new_pass THEN 0 ELSE pass_buf_fails)
                          + (IF buf_failed THEN 1 ELSE 0)
    /\ UNCHANGED <<ignore_loop, anim_info, closes, decDel>>

decode_libwebp_close ==
    /\ closes < MaxCloses
    /\ refRel' = av_buffer_unref(refRel, file_content)
    /\ file_content' = 0
    /\ decDel' = IF dec # 0 THEN WebPAnimDecoderDelete(decDel, dec) ELSE decDel
    /\ dec' = IF dec # 0 THEN DecAfterClose(dec) ELSE dec
    /\ next_frame' = IF dec # 0 THEN 0 ELSE next_frame
    /\ ret' = 0
    /\ got_frame' = 0
    /\ p' = BlankFrame
    /\ op' = "close"
    /\ pkt_size' = 0
    /\ ctor' = "none"
    /\ get_next' = "none"
    /\ buf_called' = FALSE
    /\ buf_ret' = 0
    /\ closes' = closes + 1
    /\ clean' = FALSE
    /\ calls' = 0
    /\ produced' = 0
    /\ first_eof' = 0
    /\ has_more' = "none"
    \* av_buffer_unref(&s->file_content) runs before the s->dec test
    /\ dec_at_unref' = IF file_content # 0 THEN dec ELSE 0
    /\ pass_delivered' = IF dec # 0 THEN 0 ELSE pass_delivered
    /\ pass_buf_fails' = IF dec # 0 THEN 0 ELSE pass_buf_fails
    /\ UNCHANGED <<webp_data, loop_to_send, loop_sent, ignore_loop, width,
                   height, anim_info, refsAcquired, decCreated, eof_seen>>

Next ==
    \* WebPAnimDecoderNew is only called without a decoder, ff_get_buffer
    \* only after a frame was fetched: their results are drawn only then
    \/ \E size \in PktSizes,
          newOk \in IF dec = 0 THEN BOOLEAN ELSE {TRUE},
          nextOk \in BOOLEAN :
           \E bufRet \in IF nextOk THEN GetBufferResults ELSE {0} :
               decode_libwebp_frame(size, newOk, nextOk, bufRet)
    \/ decode_libwebp_close

Spec == Init /\ [][Next]_vars

TypeOK ==
    /\ dec \in 0..MaxInits
    /\ file_content \in 0..MaxInits
    /\ loop_sent \in 0..MaxCalls
    /\ next_frame \in 0..anim_info.frame_count
    /\ got_frame \in {0, 1}

\* ---------------------------------------------------------------- claims

\* C1: with ignore_loop off and a declared loop count L > 0, a session that
\* follows the host protocol without failures delivers frame ((k-1) mod N)+1
\* on every call k <= L*N (L full passes of frames 1..N), and call L*N+1 is
\* the first call that returns AVERROR_EOF, after exactly L*N frames.
C1_LoopBoundHonored ==
    (clean /\ op = "decode" /\ ~ignore_loop /\ anim_info.loop_count > 0) =>
        LET N == anim_info.frame_count
            L == anim_info.loop_count
        IN  IF calls <= L * N
            THEN /\ ret = 0
                 /\ got_frame = 1
                 /\ p.data = ((calls - 1) % N) + 1
                 /\ loop_sent = (calls - 1) \div N
                 /\ produced = calls
                 /\ first_eof = 0
            ELSE /\ ret = AVERROR_EOF
                 /\ got_frame = 0
                 /\ produced = L * N
                 /\ first_eof = L * N + 1

C1_Witness ==
    /\ clean /\ op = "decode" /\ ~ignore_loop
    /\ anim_info.frame_count = 2 /\ anim_info.loop_count = 3
    /\ calls = 7 /\ ret = AVERROR_EOF /\ produced = 6 /\ first_eof = 7

\* C2 (as claimed): with declared loop count 0 and ignore_loop off, no decode
\* call ever returns AVERROR_EOF.
C2_InfiniteNeverEOF ==
    (op = "decode" /\ ~ignore_loop /\ anim_info.loop_count = 0) =>
        ret # AVERROR_EOF

\* C3 (as claimed): for a 2-frame container with declared loop count 0 and
\* ignore_loop off, every decode call of a failure-free session delivers a
\* frame, pass after pass.
C3_InfiniteKeepsProducing ==
    (clean /\ op = "decode" /\ ~ignore_loop /\ anim_info.loop_count = 0
       /\ anim_info.frame_count = 2) =>
        /\ ret = 0
        /\ got_frame = 1
        /\ p.data = ((calls - 1) % 2) + 1
        /\ produced = calls

\* C4: with ignore_loop on, loop_to_send is 1 whatever the declared loop
\* count; a failure-free session delivers frames 1..N on calls 1..N and call
\* N+1 is the first call that returns AVERROR_EOF.
C4_IgnoreLoopOnePass ==
    /\ (ignore_loop /\ decCreated > 0) => loop_to_send = 1
    /\ (clean /\ op = "decode" /\ ignore_loop) =>
          LET N == anim_info.frame_count
          IN  IF calls <= N
              THEN /\ ret = 0
                   /\ got_frame = 1
                   /\ p.data = calls
                   /\ produced = calls
                   /\ first_eof = 0
              ELSE /\ ret = AVERROR_EOF
                   /\ got_frame = 0
                   /\ produced = N
                   /\ first_eof = N + 1

C4_Witness ==
    /\ clean /\ op = "decode" /\ ignore_loop
    /\ anim_info.frame_count = 2 /\ anim_info.loop_count = 3
    /\ calls = 3 /\ ret = AVERROR_EOF /\ produced = 2 /\ loop_to_send = 1

\* C5: a decode call with empty input on a session without a WebPAnimDecoder
\* returns AVERROR(EINVAL), calls neither WebPAnimDecoderNew nor
\* av_buffer_ref, sets no got_frame and leaves every session field unchanged.
C5_EmptyFirstCall ==
    [][ (op' = "decode" /\ dec = 0 /\ pkt_size' <= 0) =>
          /\ ret' = AVERROR(EINVAL)
          /\ ctor' = "none"
          /\ decCreated' = decCreated
          /\ refsAcquired' = refsAcquired
          /\ refRel' = refRel
          /\ got_frame' = 0
          /\ p' = BlankFrame
          /\ get_next' = "none"
          /\ ~buf_called'
          /\ UNCHANGED ctx
          /\ UNCHANGED next_frame ]_vars

C5_Witness ==
    /\ op = "decode" /\ pkt_size = 0 /\ dec = 0 /\ file_content = 0
    /\ ret = AVERROR(EINVAL) /\ get_next = "none" /\ refsAcquired = 0

\* C6: over any sequence of decode and close calls no buffer reference is
\* released twice and no WebPAnimDecoder is deleted twice; a reference or
\* decoder not yet released is still owned by the session; and right after
\* any close (first, repeated, before any decode, after a failed
\* construction) every reference acquired and every decoder created so far
\* has been released exactly once.
C6_TeardownExactlyOnce ==
    /\ \A i \in 1..MaxInits :
          /\ refRel[i] <= 1
          /\ decDel[i] <= 1
          /\ (i > refsAcquired) => refRel[i] = 0
          /\ (i > decCreated) => decDel[i] = 0
          /\ (i <= refsAcquired /\ refRel[i] = 0) => file_content = i
          /\ (i <= decCreated /\ decDel[i] = 0) => dec = i
    /\ op = "close" =>
          /\ dec = 0
          /\ file_content = 0
          /\ \A i \in 1..refsAcquired : refRel[i] = 1
          /\ \A i \in 1..decCreated : decDel[i] = 1

C6_Witness ==
    /\ op = "close" /\ closes = 2
    /\ refsAcquired = 2 /\ decCreated = 1
    /\ refRel[1] = 1 /\ refRel[2] = 1 /\ decDel[1] = 1

\* C7: a decode call in which WebPAnimDecoderNew fails returns
\* AVERROR(ENOMEM), has released the reference it took, leaves no decoder and
\* no held reference, and leaves loop_to_send, loop_sent and the canvas
\* dimensions as they were.
C7_NewFailureCleanup ==
    [][ (op' = "decode" /\ ctor' = "fail") =>
          /\ dec = 0
          /\ ret' = AVERROR(ENOMEM)
          /\ refsAcquired' = refsAcquired + 1
          /\ refRel'[refsAcquired'] = 1
          /\ file_content' = 0
          /\ dec' = 0
          /\ decCreated' = decCreated
          /\ got_frame' = 0
          /\ UNCHANGED <<loop_to_send, loop_sent, width, height>> ]_vars

C7_Witness ==
    /\ op = "decode" /\ ctor = "fail" /\ ret = AVERROR(ENOMEM)
    /\ dec = 0 /\ file_content = 0
    /\ refsAcquired = 1 /\ refRel[1] = 1

\* C8: the canvas dimensions change only in the decode call that constructs
\* the session's first WebPAnimDecoder, and every call that sets got_frame
\* delivers a frame whose width and height are the canvas dimensions.
C8_DimensionsStable ==
    [][ /\ (width' # width \/ height' # height) =>
              (op' = "decode" /\ ctor' = "ok" /\ decCreated = 0)
        /\ got_frame' = 1 =>
              /\ p'.width = width'
              /\ p'.height = height'
              /\ width' = anim_info.canvas_width
              /\ height' = anim_info.canvas_height ]_vars

C8_Witness ==
    /\ got_frame = 1 /\ loop_sent >= 1
    /\ width # height
    /\ p.width = width /\ p.height = height

\* C9: a decode call in which ff_get_buffer fails returns AVERROR(ENOMEM)
\* whatever ff_get_buffer reported, leaves got_frame clear and writes nothing
\* into the output frame.
C9_GetBufferFailure ==
    (op = "decode" /\ buf_called /\ buf_ret # 0) =>
        /\ ret = AVERROR(ENOMEM)
        /\ got_frame = 0
        /\ p = BlankFrame

C9_Witness ==
    /\ op = "decode" /\ buf_called /\ buf_ret = AVERROR(EINVAL)
    /\ ret = AVERROR(ENOMEM) /\ got_frame = 0

\* C10: a decode call in which WebPAnimDecoderGetNext fails returns
\* AVERROR(EINVAL) without calling ff_get_buffer and without setting
\* got_frame; the decoder and the buffer reference stay owned by the session,
\* unreleased.
C10_GetNextFailure ==
    (op = "decode" /\ get_next = "fail") =>
        /\ ret = AVERROR(EINVAL)
        /\ ~buf_called
        /\ got_frame = 0
        /\ p = BlankFrame
        /\ dec # 0
        /\ decDel[dec] = 0
        /\ file_content # 0
        /\ refRel[file_content] = 0

C10_Witness ==
    /\ op = "decode" /\ get_next = "fail" /\ ret = AVERROR(EINVAL)
    /\ dec # 0 /\ file_content # 0 /\ ~buf_called

\* C11 (as claimed): whenever a WebPAnimDecoder exists the session holds its
\* buffer reference, unreleased, and no call releases the reference while a
\* WebPAnimDecoder still exists.
C11_PayloadOutlivesDecoder ==
    /\ dec # 0 => (file_content # 0 /\ refRel[file_content] = 0)
    /\ dec_at_unref = 0

\* C12: WebPAnimDecoderNew and av_buffer_ref are called only by a decode call
\* that finds no WebPAnimDecoder and carries a non-empty packet; a decode
\* call that finds a decoder calls neither, whatever its packet; and until
\* close is called the session constructs at most one decoder.
C12_ConstructedOnce ==
    [][ op' = "decode" =>
          /\ ctor' # "none" => (dec = 0 /\ pkt_size' > 0)
          /\ refsAcquired' # refsAcquired => (dec = 0 /\ pkt_size' > 0)
          /\ dec # 0 =>
                /\ ctor' = "none"
                /\ refsAcquired' = refsAcquired
                /\ decCreated' = decCreated
                /\ file_content' = file_content
                /\ webp_data' = webp_data
          /\ closes' = 0 => decCreated' <= 1 ]_vars

C12_Witness ==
    /\ op = "decode" /\ pkt_size > 0 /\ ctor = "none"
    /\ dec = 1 /\ decCreated = 1 /\ refsAcquired = 1 /\ closes = 0

\* C13: a decode call that finds a WebPAnimDecoder leaves the same, undeleted
\* decoder in place whatever it returns; the decoder goes away only in close,
\* which deletes it once.
C13_DecoderStaysUntilClose ==
    [][ /\ (dec # 0 /\ op' = "decode") =>
              /\ dec' = dec
              /\ decDel' = decDel
              /\ decDel[dec] = 0
        /\ (dec # 0 /\ dec' # dec) =>
              /\ op' = "close"
              /\ dec' = 0
              /\ decDel'[dec] = 1 ]_vars

C13_Witness ==
    /\ op = "decode" /\ ret = AVERROR_EOF /\ ctor = "none"
    /\ dec = 1 /\ decCreated = 1 /\ decDel[1] = 0

\* C14: loop_sent never decreases; a step increases it, by exactly 1, if and
\* only if it is a decode call in which WebPAnimDecoderHasMoreFrames reported
\* no more frames; exactly those calls reset the decoder to the first frame;
\* and the end-of-stream test of the call sees the incremented counter.
C14_LoopSentCountsBoundaries ==
    [][ /\ loop_sent' >= loop_sent
        /\ loop_sent' <= loop_sent + 1
        /\ (loop_sent' = loop_sent + 1) <=> (op' = "decode" /\ has_more' = "no")
        /\ (op' = "decode" /\ has_more' = "no") =>
              next_frame' = IF get_next' = "ok" THEN 1 ELSE 0
        /\ (op' = "decode" /\ has_more' = "yes" /\ ctor' = "none") =>
              next_frame' = IF get_next' = "ok" THEN next_frame + 1
                            ELSE next_frame
        /\ (op' = "decode" /\ has_more' # "none") =>
              ((ret' = AVERROR_EOF) <=> (loop_sent' >= loop_to_send')) ]_vars

C14_Witness ==
    /\ op = "decode" /\ has_more = "no" /\ ret = AVERROR_EOF
    /\ loop_sent = 2 /\ loop_to_send = 2 /\ next_frame = 0

\* C15: every call that sets got_frame returns 0 and delivers the frame the
\* decoder just fetched, stamped with that frame's own millisecond timestamp
\* as pts (the same in every pass), pkt_dts 0, picture type I and format RGBA.
C15_FrameStamping ==
    got_frame = 1 =>
        /\ ret = 0
        /\ get_next = "ok"
        /\ p.data = next_frame
        /\ p.pts = Timestamp(next_frame)
        /\ p.pkt_dts = 0
        /\ p.pict_type = "I"
        /\ p.format = "RGBA"

C15_Witness ==
    /\ op = "decode" /\ got_frame = 1 /\ ret = 0
    /\ loop_sent = 1 /\ p.data = 1 /\ p.pts = Timestamp(1)
    /\ p.pkt_dts = 0 /\ p.pict_type = "I" /\ p.format = "RGBA"

\* C16: once a decode call has returned AVERROR_EOF, no later decode call
\* calls WebPAnimDecoderGetNext or ff_get_buffer, sets got_frame or changes
\* loop_sent, and every later decode call that runs with a WebPAnimDecoder
\* (all of them until close) returns AVERROR_EOF again.
C16_EndOfStreamAbsorbing ==
    [][ (eof_seen /\ op' = "decode") =>
          /\ get_next' = "none"
          /\ ~buf_called'
          /\ got_frame' = 0
          /\ p' = BlankFrame
          /\ loop_sent' = loop_sent
          /\ dec' # 0 => ret' = AVERROR_EOF ]_vars

C16_Witness ==
    /\ op = "decode" /\ ret = AVERROR_EOF /\ eof_seen
    /\ clean /\ first_eof > 0 /\ calls > first_eof
    /\ loop_to_send > 0 /\ has_more = "yes"

\* C17: with a loop target above 0 (and a container of at least one frame),
\* loop_sent never exceeds loop_to_send, and it equals loop_to_send exactly in
\* the states from the first AVERROR_EOF on; so the counter never comes near
\* the end of its 32-bit range.
C17_LoopSentBounded ==
    (loop_to_send > 0 /\ anim_info.frame_count >= 1) =>
        /\ loop_sent <= loop_to_send
        /\ (loop_sent = loop_to_send) <=> eof_seen

C17_Witness ==
    /\ op = "decode" /\ ret = AVERROR_EOF /\ eof_seen /\ ~ignore_loop
    /\ loop_to_send = 3 /\ loop_sent = 3 /\ has_more = "no"

\* C18: a decode call that fails at ff_get_buffer has already fetched a frame:
\* the decoder stands one frame further, that frame is not delivered, the
\* next call, if it delivers, delivers the frame after it (frame 1 if it was
\* the last of the pass), and in every pass the frames delivered are the
\* frames fetched minus those lost to ff_get_buffer failures.
C18_BufferFailureSkipsFrame ==
    [][ /\ (op' = "decode" /\ buf_called' /\ buf_ret' # 0) =>
              /\ got_frame' = 0
              /\ get_next' = "ok"
              /\ next_frame' = (IF has_more' = "no" \/ ctor' = "ok" THEN 0
                                ELSE next_frame) + 1
              /\ pass_delivered' = IF has_more' = "no" \/ ctor' = "ok" THEN 0
                                   ELSE pass_delivered
              /\ pass_buf_fails' >= 1
        /\ pass_delivered' = next_frame' - pass_buf_fails'
        /\ (op = "decode" /\ buf_called /\ buf_ret # 0 /\ op' = "decode"
              /\ got_frame' = 1) =>
              p'.data = IF next_frame < anim_info.frame_count
                        THEN next_frame + 1 ELSE 1 ]_vars

C18_Witness ==
    /\ op = "decode" /\ got_frame = 1 /\ anim_info.frame_count = 3
    /\ next_frame = 3 /\ p.data = 3
    /\ pass_buf_fails = 1 /\ pass_delivered = 2
====
